---- MODULE Spec2Model ----
(***************************************************************************)
(* Producer registration and emission pipeline of the Conductor server     *)
(* (conductor_app/src/producer.rs, conductor_app/src/db.rs) together with  *)
(* the shared types of conductor_common.                                   *)
(*                                                                         *)
(* Strings are sequences of one-character strings, so that is_empty and    *)
(* contains are computed.  A row cell, a bound statement parameter and a   *)
(* JSON value are tagged records [k |-> tag, v |-> payload].               *)
(***************************************************************************)
EXTENDS Integers, Sequences, FiniteSets, Bags, TLC

VARIABLES
    tables,     \* the store: table name -> [cols : column -> type, rows : bag of rows]
    procs,      \* the request handlers: handler -> the call it is serving
    last,       \* the call that has just returned, with its result
    looked,     \* the catalog lookup that has just been made, with its outcome
    nextUuid,   \* how many identifiers Uuid::new_v4 has handed out
    returnedOk, \* history: ids a Register call has returned with NoError
    insertedBy, \* history: the identifier and registration of each catalog row a
                \* Register call has inserted
    fin,        \* input of the pure function under check
    fout        \* its output

vars == <<tables, procs, last, looked, nextUuid, returnedOk, insertedBy, fin, fout>>

-----------------------------------------------------------------------------
(* Bounds *)

\* most rows the catalog table holds before further Register calls are cut off
MaxCatalogRows == 3
\* most rows one data table holds
MaxDataRows == 2
\* most identifiers Uuid::new_v4 generates
MaxUuids == 2
\* most columns of a schema handed to validate_registration on its own
MaxCols == 2

-----------------------------------------------------------------------------
(* Strings *)

DOT == "."
QUOTE == "\""

is_empty(s) == Len(s) = 0

contains(s, c) == \E i \in 1..Len(s) : s[i] = c

S_ts == <<"t", "s">>
S_n == <<"n">>
S_x == <<"x">>
S_y == <<"y">>
S_z == <<"z">>
S_c1 == <<"c", "1">>
S_zz == <<"z", "z">>
S_name == <<"n", "a", "m", "e">>
S_uuid == <<"u", "u", "i", "d">>
S_schema == <<"s", "c", "h", "e", "m", "a">>
S_producers == <<"p", "r", "o", "d", "u", "c", "e", "r", "s">>
S_String == <<"S", "t", "r", "i", "n", "g">>
S_Int == <<"I", "n", "t">>
S_a_dot_b == <<"a", DOT, "b">>
S_q_quote == <<"q", QUOTE>>

\* Option<T>
None == [k |-> "None", v |-> <<>>]
Some(x) == [k |-> "Some", v |-> x]
is_some(o) == o.k = "Some"

\* all orders in which a HashMap with key set S can be iterated
Orderings(S) ==
    {s \in [1..Cardinality(S) -> S] : \A i, j \in 1..Cardinality(S) : s[i] = s[j] => i = j}

-----------------------------------------------------------------------------
(* conductor_common::schema *)

DataTypes == {"Int", "Float", "Time", "String", "Binary", "Bool", "Double"}

\* to_quest_type_str with Float given the label of Double
to_quest_type_str_float_as_double(dt) ==
    CASE dt = "Int" -> "long"
      [] dt = "Float" -> "double"
      [] dt = "Time" -> "timestamp"
      [] dt = "Binary" -> "binary"
      [] dt = "String" -> "string"
      [] dt = "Bool" -> "boolean"
      [] dt = "Double" -> "double"

to_quest_type_str(dt) ==
    CASE dt = "Int" -> "long"
      [] dt = "Float" -> "float"
      [] dt = "Time" -> "timestamp"
      [] dt = "Binary" -> "binary"
      [] dt = "String" -> "string"
      [] dt = "Bool" -> "boolean"
      [] dt = "Double" -> "double"

\* the variant name serde writes for a DataTypes value
VariantName(dt) ==
    CASE dt = "Int" -> S_Int
      [] dt = "Float" -> <<"F", "l", "o", "a", "t">>
      [] dt = "Time" -> <<"T", "i", "m", "e">>
      [] dt = "Binary" -> <<"B", "i", "n", "a", "r", "y">>
      [] dt = "String" -> S_String
      [] dt = "Bool" -> <<"B", "o", "o", "l">>
      [] dt = "Double" -> <<"D", "o", "u", "b", "l", "e">>

\* Registration { name, schema, use_custom_id }
Registration(name, schema, custom_id) ==
    [name |-> name, schema |-> schema, use_custom_id |-> custom_id]

contains_column(registration, column_name) == column_name \in DOMAIN registration.schema

schema_len(registration) == Cardinality(DOMAIN registration.schema)

-----------------------------------------------------------------------------
(* conductor_common::error *)

ErrorKinds ==
    {"NoError", "TimestampDefined", "NoMembers", "InvalidColumnNames", "TooManyColumns",
     "InternalError", "InvalidUuid", "NameInvalid", "Unregistered", "InvalidData",
     "InvalidSchema"}

\* a ConductorError: its variant and, in detail, the text of a store error that
\* was formatted into its message (<<>> when the message holds none)
ConductorError(kind, detail) == [kind |-> kind, detail |-> detail]

NoError == ConductorError("NoError", <<>>)

\* the largest column count QuestDB supports
QUEST_MAX_COLUMNS == 2147483647

-----------------------------------------------------------------------------
(* serde_json values and texts *)

JNull == [k |-> "null", v |-> <<>>]
JBool(b) == [k |-> "bool", v |-> b]
\* an integer literal m * 10^e
JInt(m, e) == [k |-> "int", v |-> <<m, e>>]
\* a literal with fraction or exponent, m * 10^e
JFloat(m, e) == [k |-> "float", v |-> <<m, e>>]
JStr(s) == [k |-> "str", v |-> s]
\* an array of small integers
JArr(a) == [k |-> "arr", v |-> a]

\* a Rust String / SQL string cell holding plain text
Str(s) == [k |-> "string", v |-> s]
\* a Rust String / SQL string cell holding the JSON text of document doc
JsonText(doc) == [k |-> "jsontext", v |-> doc]
\* SQL NULL
NullCell == [k |-> "null", v |-> <<>>]

\* serde_json::to_string_pretty(schema): an object whose members are the variant names
schema_to_json(schema) == JsonText([c \in DOMAIN schema |-> JStr(VariantName(schema[c]))])

\* serde_json::from_str::<HashMap<String, Value>>(text)
json_to_value_map(text) ==
    IF text.k = "jsontext" THEN [ok |-> TRUE, val |-> text.v]
    ELSE [ok |-> FALSE, val |-> <<>>]

NamesVariant(j) == j.k = "str" /\ \E dt \in DataTypes : VariantName(dt) = j.v

\* serde_json::from_str::<Schema>(text): every member must name a DataTypes variant
json_to_schema(text) ==
    IF text.k = "jsontext" /\ \A c \in DOMAIN text.v : NamesVariant(text.v[c])
    THEN [ok |-> TRUE,
          val |-> [c \in DOMAIN text.v |->
                      CHOOSE dt \in DataTypes : VariantName(dt) = text.v[c].v]]
    ELSE [ok |-> FALSE, val |-> <<>>]

-----------------------------------------------------------------------------
(* Decimal magnitudes: a literal <<m, e>> stands for m * 10^e, |m| < 10^8 *)

Abs(n) == IF n < 0 THEN -n ELSE n

RECURSIVE NumDigits(_)
NumDigits(n) == IF n < 10 THEN 1 ELSE 1 + NumDigits(n \div 10)

RECURSIVE Pow10(_)
Pow10(n) == IF n = 0 THEN 1 ELSE 10 * Pow10(n - 1)

\* the first eight decimal digits of |m|
Lead8(m) == Abs(m) * Pow10(8 - NumDigits(Abs(m)))

\* |m * 10^e| exceeds the number that has `digits` digits and starts with `lead8`
\* (followed by digits that are not all zero)
MagnitudeAbove(num, digits, lead8) ==
    /\ num[1] # 0
    /\ \/ NumDigits(Abs(num[1])) + num[2] > digits
       \/ /\ NumDigits(Abs(num[1])) + num[2] = digits
          /\ Lead8(num[1]) > lead8

\* i64::MAX = 9223372036854775807 and -i64::MIN = 9223372036854775808
I64_DIGITS == 19
I64_LEAD8 == 92233720
\* f32::MAX = 340282346638528859811704183484516925440 = -f32::MIN; as f64 values
\* f32::MAX - f32::EPSILON and f32::MIN + f32::EPSILON round back to f32::MAX, f32::MIN
F32_DIGITS == 39
F32_LEAD8 == 34028234

\* Value::as_i64
as_i64(val) ==
    IF val.k = "int" /\ ~MagnitudeAbove(val.v, I64_DIGITS, I64_LEAD8) THEN Some(val.v) ELSE None

\* Value::as_f64
as_f64(val) == IF val.k \in {"int", "float"} THEN Some(val.v) ELSE None

\* Value::as_str
as_str(val) == IF val.k = "str" THEN Some(val.v) ELSE None

\* Value::as_bool
as_bool(val) == IF val.k = "bool" THEN Some(val.v) ELSE None

IsDigit(c) == c \in {"0", "1", "2", "3", "4", "5", "6", "7", "8", "9"}

\* serde_json::from_value::<chrono::NaiveDateTime>: a string YYYY-MM-DDTHH:MM:SS
parse_naive_date_time(val) ==
    IF /\ val.k = "str"
       /\ Len(val.v) = 19
       /\ \A i \in 1..19 :
            CASE i \in {5, 8} -> val.v[i] = "-"
              [] i = 11 -> val.v[i] = "T"
              [] i \in {14, 17} -> val.v[i] = ":"
              [] OTHER -> IsDigit(val.v[i])
    THEN Some(val.v) ELSE None

\* serde_json::from_value::<Vec<u8>>: an array whose elements all fit a u8
parse_bytes(val) ==
    IF val.k = "arr" /\ \A i \in 1..Len(val.v) : val.v[i] \in 0..255
    THEN Some(val.v) ELSE None

CoerceOk(param) == [ok |-> TRUE, val |-> param]
CoerceErr == [ok |-> FALSE, val |-> NullCell]

\* to_solid_type_from_json boxing, for a String column, the JSON text of the value
\* (quotes included) instead of the string it holds
to_solid_type_from_json_string_as_json(val, data_type) ==
    CASE data_type = "Int" ->
            IF is_some(as_i64(val)) THEN CoerceOk([k |-> "i64", v |-> val.v]) ELSE CoerceErr
      [] data_type = "Float" ->
            IF is_some(as_f64(val))
            THEN IF MagnitudeAbove(val.v, F32_DIGITS, F32_LEAD8)
                 THEN CoerceErr
                 ELSE CoerceOk([k |-> "f32", v |-> val.v])
            ELSE CoerceErr
      [] data_type = "Time" ->
            IF is_some(parse_naive_date_time(val))
            THEN CoerceOk([k |-> "timestamp", v |-> val.v]) ELSE CoerceErr
      [] data_type = "String" ->
            IF is_some(as_str(val))
            THEN CoerceOk(Str(<<QUOTE>> \o val.v \o <<QUOTE>>)) ELSE CoerceErr
      [] data_type = "Bool" ->
            IF is_some(as_bool(val)) THEN CoerceOk([k |-> "bool", v |-> val.v]) ELSE CoerceErr
      [] data_type = "Double" ->
            IF is_some(as_f64(val)) THEN CoerceOk([k |-> "f64", v |-> val.v]) ELSE CoerceErr
      [] data_type = "Binary" ->
            IF is_some(parse_bytes(val))
            THEN CoerceOk([k |-> "bytes", v |-> val.v]) ELSE CoerceErr

\* to_solid_type_from_json reading, for an Int column, a text of digits as the
\* integer it spells
to_solid_type_from_json_int_from_text(val, data_type) ==
    CASE data_type = "Int" ->
            IF is_some(as_i64(val)) \/ (val.k = "str" /\ \A i \in 1..Len(val.v) : IsDigit(val.v[i]))
            THEN CoerceOk([k |-> "i64", v |-> val.v]) ELSE CoerceErr
      [] data_type = "Float" ->
            IF is_some(as_f64(val))
            THEN IF MagnitudeAbove(val.v, F32_DIGITS, F32_LEAD8)
                 THEN CoerceErr
                 ELSE CoerceOk([k |-> "f32", v |-> val.v])
            ELSE CoerceErr
      [] data_type = "Time" ->
            IF is_some(parse_naive_date_time(val))
            THEN CoerceOk([k |-> "timestamp", v |-> val.v]) ELSE CoerceErr
      [] data_type = "String" ->
            IF is_some(as_str(val)) THEN CoerceOk(Str(val.v)) ELSE CoerceErr
      [] data_type = "Bool" ->
            IF is_some(as_bool(val)) THEN CoerceOk([k |-> "bool", v |-> val.v]) ELSE CoerceErr
      [] data_type = "Double" ->
            IF is_some(as_f64(val)) THEN CoerceOk([k |-> "f64", v |-> val.v]) ELSE CoerceErr
      [] data_type = "Binary" ->
            IF is_some(parse_bytes(val))
            THEN CoerceOk([k |-> "bytes", v |-> val.v]) ELSE CoerceErr

\* to_solid_type_from_json narrowing every f64 to f32 without the range test
to_solid_type_from_json_unchecked_float(val, data_type) ==
    CASE data_type = "Int" ->
            IF is_some(as_i64(val)) THEN CoerceOk([k |-> "i64", v |-> val.v]) ELSE CoerceErr
      [] data_type = "Float" ->
            IF is_some(as_f64(val)) THEN CoerceOk([k |-> "f32", v |-> val.v]) ELSE CoerceErr
      [] data_type = "Time" ->
            IF is_some(parse_naive_date_time(val))
            THEN CoerceOk([k |-> "timestamp", v |-> val.v]) ELSE CoerceErr
      [] data_type = "String" ->
            IF is_some(as_str(val)) THEN CoerceOk(Str(val.v)) ELSE CoerceErr
      [] data_type = "Bool" ->
            IF is_some(as_bool(val)) THEN CoerceOk([k |-> "bool", v |-> val.v]) ELSE CoerceErr
      [] data_type = "Double" ->
            IF is_some(as_f64(val)) THEN CoerceOk([k |-> "f64", v |-> val.v]) ELSE CoerceErr
      [] data_type = "Binary" ->
            IF is_some(parse_bytes(val))
            THEN CoerceOk([k |-> "bytes", v |-> val.v]) ELSE CoerceErr

\* to_solid_type_from_json: the boxed ToSql parameter, tagged with its Rust type
to_solid_type_from_json(val, data_type) ==
    CASE data_type = "Int" ->
            IF is_some(as_i64(val)) THEN CoerceOk([k |-> "i64", v |-> val.v]) ELSE CoerceErr
      [] data_type = "Float" ->
            IF is_some(as_f64(val))
            THEN IF MagnitudeAbove(val.v, F32_DIGITS, F32_LEAD8)
                 THEN CoerceErr
                 ELSE CoerceOk([k |-> "f32", v |-> val.v])
            ELSE CoerceErr
      [] data_type = "Time" ->
            IF is_some(parse_naive_date_time(val))
            THEN CoerceOk([k |-> "timestamp", v |-> val.v]) ELSE CoerceErr
      [] data_type = "String" ->
            IF is_some(as_str(val)) THEN CoerceOk(Str(val.v)) ELSE CoerceErr
      [] data_type = "Bool" ->
            IF is_some(as_bool(val)) THEN CoerceOk([k |-> "bool", v |-> val.v]) ELSE CoerceErr
      [] data_type = "Double" ->
            IF is_some(as_f64(val)) THEN CoerceOk([k |-> "f64", v |-> val.v]) ELSE CoerceErr
      [] data_type = "Binary" ->
            IF is_some(parse_bytes(val))
            THEN CoerceOk([k |-> "bytes", v |-> val.v]) ELSE CoerceErr

-----------------------------------------------------------------------------
(* validate_registration *)

HasIllegalChars(s) == contains(s, DOT) \/ contains(s, QUOTE)

\* validate_registration without its test for an empty schema
validate_registration_no_members_check(registration) ==
    IF is_empty(registration.name)
    THEN ConductorError("NameInvalid", <<>>)
    ELSE IF /\ is_some(registration.use_custom_id)
            /\ \/ is_empty(registration.use_custom_id.v)
               \/ contains(registration.use_custom_id.v, DOT)
               \/ contains(registration.use_custom_id.v, QUOTE)
    THEN ConductorError("InvalidUuid", <<>>)
    ELSE IF contains_column(registration, S_ts)
    THEN ConductorError("TimestampDefined", <<>>)
    ELSE IF \E col \in DOMAIN registration.schema : contains(col, DOT) \/ contains(col, QUOTE)
    THEN ConductorError("InvalidColumnNames", <<>>)
    ELSE IF schema_len(registration) > QUEST_MAX_COLUMNS
    THEN ConductorError("TooManyColumns", <<>>)
    ELSE NoError

\* validate_registration testing column names for '.' only
validate_registration_dot_only(registration) ==
    IF is_empty(registration.name)
    THEN ConductorError("NameInvalid", <<>>)
    ELSE IF /\ is_some(registration.use_custom_id)
            /\ \/ is_empty(registration.use_custom_id.v)
               \/ contains(registration.use_custom_id.v, DOT)
               \/ contains(registration.use_custom_id.v, QUOTE)
    THEN ConductorError("InvalidUuid", <<>>)
    ELSE IF contains_column(registration, S_ts)
    THEN ConductorError("TimestampDefined", <<>>)
    ELSE IF DOMAIN registration.schema = {}
    THEN ConductorError("NoMembers", <<>>)
    ELSE IF \E col \in DOMAIN registration.schema : contains(col, DOT)
    THEN ConductorError("InvalidColumnNames", <<>>)
    ELSE IF schema_len(registration) > QUEST_MAX_COLUMNS
    THEN ConductorError("TooManyColumns", <<>>)
    ELSE NoError

\* validate_registration with the column-name check moved ahead of the name check
validate_registration_columns_first(registration) ==
    IF \E col \in DOMAIN registration.schema : contains(col, DOT) \/ contains(col, QUOTE)
    THEN ConductorError("InvalidColumnNames", <<>>)
    ELSE IF is_empty(registration.name)
    THEN ConductorError("NameInvalid", <<>>)
    ELSE IF /\ is_some(registration.use_custom_id)
            /\ \/ is_empty(registration.use_custom_id.v)
               \/ contains(registration.use_custom_id.v, DOT)
               \/ contains(registration.use_custom_id.v, QUOTE)
    THEN ConductorError("InvalidUuid", <<>>)
    ELSE IF contains_column(registration, S_ts)
    THEN ConductorError("TimestampDefined", <<>>)
    ELSE IF DOMAIN registration.schema = {}
    THEN ConductorError("NoMembers", <<>>)
    ELSE IF schema_len(registration) > QUEST_MAX_COLUMNS
    THEN ConductorError("TooManyColumns", <<>>)
    ELSE NoError

validate_registration(registration) ==
    IF is_empty(registration.name)
    THEN ConductorError("NameInvalid", <<>>)
    ELSE IF /\ is_some(registration.use_custom_id)
            /\ \/ is_empty(registration.use_custom_id.v)
               \/ contains(registration.use_custom_id.v, DOT)
               \/ contains(registration.use_custom_id.v, QUOTE)
    THEN ConductorError("InvalidUuid", <<>>)
    ELSE IF contains_column(registration, S_ts)
    THEN ConductorError("TimestampDefined", <<>>)
    ELSE IF DOMAIN registration.schema = {}
    THEN ConductorError("NoMembers", <<>>)
    ELSE IF \E col \in DOMAIN registration.schema : contains(col, DOT) \/ contains(col, QUOTE)
    THEN ConductorError("InvalidColumnNames", <<>>)
    ELSE IF schema_len(registration) > QUEST_MAX_COLUMNS
    THEN ConductorError("TooManyColumns", <<>>)
    ELSE NoError

-----------------------------------------------------------------------------
(* The store: the statements the program sends and what they do *)

\* db.rs: CREATE TABLE IF NOT EXISTS producers (name string, uuid string, schema string)
ProducersColumns == <<S_name, S_uuid, S_schema>>

ProducersTable ==
    [cols |-> [c \in {S_name, S_uuid, S_schema} |-> "string"], rows |-> EmptyBag]

\* create_app_schema: the store once the server is launched
create_app_schema == [t \in {S_producers} |-> ProducersTable]

\* generate_create_table_sql: CREATE TABLE IF NOT EXISTS "<table_name>" (ts TIMESTAMP,
\* "<col>" <type>, ...) timestamp(ts); order is the schema's iteration order
generate_create_table_sql(registration, table_name, order) ==
    [kind |-> "create_if_not_exists",
     table |-> table_name,
     columns |-> <<[name |-> S_ts, type |-> "TIMESTAMP"]>> \o
                 [i \in 1..Len(order) |->
                     [name |-> order[i],
                      type |-> to_quest_type_str(registration.schema[order[i]])]],
     timestamp |-> S_ts]

\* get_or_create_uuid_for_registration; fresh is what Uuid::new_v4 returns
get_or_create_uuid_for_registration(registration, fresh) ==
    IF is_some(registration.use_custom_id) THEN registration.use_custom_id.v ELSE fresh

\* generate_data_for_creation
generate_data_for_creation(registration, uuid, order) ==
    [create_table_sql |-> generate_create_table_sql(registration, uuid, order),
     producer_name |-> Str(registration.name),
     schema_json |-> schema_to_json(registration.schema),
     uuid_copy |-> Str(uuid)]

\* the statement of persist_registration: INSERT INTO producers VALUES($1, $2, $3);
InsertProducerSql ==
    [kind |-> "insert", table |-> S_producers, columns |-> ProducersColumns,
     values |-> <<1, 2, 3>>]

\* get_insert_sql naming the ts column when the emit carries a timestamp
get_insert_sql_with_ts(emit, column_names) ==
    IF Len(column_names) = 0
    THEN [ok |-> FALSE, val |-> <<>>]
    ELSE [ok |-> TRUE,
          val |-> [kind |-> "insert",
                   table |-> emit.uuid,
                   columns |-> IF is_some(emit.timestamp)
                               THEN column_names \o <<S_ts>> ELSE column_names,
                   values |-> <<1>> \o [i \in 1..(Len(column_names) - 1) |-> i]]]

\* get_insert_sql: INSERT INTO "<uuid>" ("c1", "c2", ...) VALUES ($1,$1,$2,...);
\* values holds the number of each placeholder, as the loop 1..len writes them
get_insert_sql(emit, column_names) ==
    IF Len(column_names) = 0
    THEN [ok |-> FALSE, val |-> <<>>]
    ELSE [ok |-> TRUE,
          val |-> [kind |-> "insert",
                   table |-> emit.uuid,
                   columns |-> column_names,
                   values |-> <<1>> \o [i \in 1..(Len(column_names) - 1) |-> i]]]

\* the SQL type a column type label stands for
ColType(label) == IF label = "TIMESTAMP" THEN "timestamp" ELSE label

\* whether the driver binds a parameter of this Rust type to a column of this type
Binds(param, coltype) ==
    CASE param.k = "i64" -> coltype = "long"
      [] param.k = "f32" -> coltype = "float"
      [] param.k = "f64" -> coltype = "double"
      [] param.k = "timestamp" -> coltype = "timestamp"
      [] param.k \in {"string", "jsontext"} -> coltype = "string"
      [] param.k = "bool" -> coltype = "boolean"
      [] param.k = "bytes" -> coltype = "binary"
      [] OTHER -> FALSE

\* number of parameters of a prepared insert: its highest placeholder
RECURSIVE MaxOf(_)
MaxOf(seq) ==
    IF Len(seq) = 0 THEN 0
    ELSE IF Head(seq) > MaxOf(Tail(seq)) THEN Head(seq) ELSE MaxOf(Tail(seq))

\* whether the store accepts the insert with these parameters
InsertAccepted(db, sql, params) ==
    /\ sql.table \in DOMAIN db
    /\ Len(params) = MaxOf(sql.values)
    /\ \A i \in 1..Len(sql.columns) :
          /\ sql.columns[i] \in DOMAIN db[sql.table].cols
          /\ Binds(params[sql.values[i]], db[sql.table].cols[sql.columns[i]])

\* the row an accepted insert appends: unnamed columns are NULL
InsertedRow(db, sql, params) ==
    [c \in DOMAIN db[sql.table].cols |->
        IF \E i \in 1..Len(sql.columns) : sql.columns[i] = c
        THEN params[sql.values[CHOOSE i \in 1..Len(sql.columns) : sql.columns[i] = c]]
        ELSE NullCell]

ExecInsert(db, sql, params) ==
    [db EXCEPT ![sql.table].rows = @ (+) SetToBag({InsertedRow(db, sql, params)})]

\* the type a create statement declares for column c
DeclaredType(sql, c) ==
    ColType(sql.columns[CHOOSE i \in 1..Len(sql.columns) : sql.columns[i].name = c].type)

\* CREATE TABLE IF NOT EXISTS: nothing happens when the table exists
ExecCreate(db, sql) ==
    IF sql.table \in DOMAIN db THEN db
    ELSE [t \in DOMAIN db \cup {sql.table} |->
            IF t = sql.table
            THEN [cols |-> [c \in {sql.columns[i].name : i \in 1..Len(sql.columns)} |->
                              DeclaredType(sql, c)],
                  rows |-> EmptyBag]
            ELSE db[t]]

\* the rows of a bag, in some order
RECURSIVE BagToSeq(_)
BagToSeq(B) ==
    IF DOMAIN B = {} THEN <<>>
    ELSE LET r == CHOOSE x \in DOMAIN B : TRUE
         IN  <<r>> \o BagToSeq(IF B[r] = 1 THEN [x \in DOMAIN B \ {r} |-> B[x]]
                                ELSE [B EXCEPT ![r] = @ - 1])

\* SELECT * FROM producers WHERE uuid = $1;
SelectProducer(db, uuid) ==
    LET rows == db[S_producers].rows
    IN  BagToSeq([r \in {x \in DOMAIN rows : x[S_uuid] = Str(uuid)} |-> rows[r]])

\* the outcome of a statement that met a store failure, with the store's error text
StoreErr(text) == [ok |-> FALSE, rows |-> <<>>, text |-> text]
StoreOk(rows) == [ok |-> TRUE, rows |-> rows, text |-> <<>>]

\* the texts of the store's errors
StoreErrTexts == {<<"t", "i", "m", "e", "o", "u", "t">>, <<"d", "o", "w", "n">>}

-----------------------------------------------------------------------------
(* get_producer_row, validate_emit_schema *)

\* row.try_get::<String>(column).unwrap_or_default()
try_get_string(row, column) ==
    IF column \in DOMAIN row /\ row[column].k \in {"string", "jsontext"}
    THEN row[column] ELSE Str(<<>>)

NoProducer == [name |-> Str(<<>>), uuid |-> Str(<<>>), schema |-> Str(<<>>)]

LookupErr(kind, detail) == [ok |-> FALSE, err |-> ConductorError(kind, detail), val |-> NoProducer]
LookupOk(producer) == [ok |-> TRUE, err |-> NoError, val |-> producer]

\* get_producer_row without its test for more than one row
get_producer_row_first_row(uuid, qr) ==
    IF is_empty(uuid)
    THEN LookupErr("InvalidUuid", <<>>)
    ELSE IF ~qr.ok
    THEN LookupErr("Unregistered", qr.text)
    ELSE IF Len(qr.rows) = 0
    THEN LookupErr("Unregistered", <<>>)
    ELSE LET producer == [name |-> try_get_string(qr.rows[1], S_name),
                          uuid |-> try_get_string(qr.rows[1], S_uuid),
                          schema |-> try_get_string(qr.rows[1], S_schema)]
         IN  IF \/ producer.name = Str(<<>>)
                \/ producer.uuid = Str(<<>>)
                \/ producer.schema = Str(<<>>)
             THEN LookupErr("InternalError", <<>>)
             ELSE LookupOk(producer)

\* get_producer_row, given the outcome qr of its query (not sent when uuid is empty)
get_producer_row(uuid, qr) ==
    IF is_empty(uuid)
    THEN LookupErr("InvalidUuid", <<>>)
    ELSE IF ~qr.ok
    THEN LookupErr("Unregistered", qr.text)
    ELSE IF Len(qr.rows) = 0
    THEN LookupErr("Unregistered", <<>>)
    ELSE IF Len(qr.rows) > 1
    THEN LookupErr("InternalError", <<>>)
    ELSE LET producer == [name |-> try_get_string(qr.rows[1], S_name),
                          uuid |-> try_get_string(qr.rows[1], S_uuid),
                          schema |-> try_get_string(qr.rows[1], S_schema)]
         IN  IF \/ producer.name = Str(<<>>)
                \/ producer.uuid = Str(<<>>)
                \/ producer.schema = Str(<<>>)
             THEN LookupErr("InternalError", <<>>)
             ELSE LookupOk(producer)

\* validate_emit_schema accepting every data whose registered schema text parses
validate_emit_schema_parse_only(data, producer) ==
    json_to_value_map(producer.schema).ok

\* validate_emit_schema: the registered schema text, read as a map of JSON
\* values, is compared with the emitted data
validate_emit_schema(data, producer) ==
    LET schema == json_to_value_map(producer.schema)
    IN  schema.ok /\ schema.val = data.data

-----------------------------------------------------------------------------
(* persist_emit up to its insert *)

PrepErr(kind) ==
    [ok |-> FALSE, err |-> ConductorError(kind, <<>>), sql |-> <<>>, params |-> <<>>]

\* the loop over emit.get_data(), visited in `order`, and get_insert_sql(..).unwrap()
coerce_fields(emit, schema, order) ==
    LET Bad(i) == \/ order[i] \notin DOMAIN schema
                  \/ ~to_solid_type_from_json(emit.data[order[i]], schema[order[i]]).ok
    IN  IF \E i \in 1..Len(order) : Bad(i)
        THEN LET first == CHOOSE i \in 1..Len(order) :
                              Bad(i) /\ \A j \in 1..(i - 1) : ~Bad(j)
             IN  IF order[first] \notin DOMAIN schema
                 THEN PrepErr("InvalidColumnNames")
                 ELSE PrepErr("InvalidData")
        ELSE IF ~get_insert_sql(emit, order).ok
        THEN PrepErr("Panic")
        ELSE [ok |-> TRUE, err |-> NoError,
              sql |-> get_insert_sql(emit, order).val,
              params |-> [i \in 1..Len(order) |->
                            to_solid_type_from_json(emit.data[order[i]],
                                                    schema[order[i]]).val]]

\* persist_emit from the registered schema text its lookup returned to the
\* statement and parameters it sends
persist_emit_prepare(emit, schema_json, order) ==
    IF schema_json = Str(<<>>)
    THEN PrepErr("NoMembers")
    ELSE IF ~json_to_schema(schema_json).ok
    THEN PrepErr("NoMembers")
    ELSE coerce_fields(emit, json_to_schema(schema_json).val, order)

-----------------------------------------------------------------------------
(* Request handlers *)

Handlers == {"h1", "h2"}

\* Emit { uuid, timestamp, data }
Emit(uuid, timestamp, data) == [uuid |-> uuid, timestamp |-> timestamp, data |-> data]

NoResult == [error |-> NoError, uuid |-> None, status |-> "none"]
\* RegistrationResult { error, uuid }
RegistrationResult(error, uuid) == [error |-> error, uuid |-> uuid, status |-> "none"]
\* EmitResult { error }
EmitResult(error) == [error |-> error, uuid |-> None, status |-> "none"]
\* rocket::http::Status of check
StatusResult(status) == [error |-> NoError, uuid |-> None, status |-> status]

NoSql == [sql |-> <<>>, params |-> <<>>]

\* a handler serving no call
Idle ==
    [pc |-> "idle", op |-> "none", arg |-> <<>>, uuid |-> <<>>, stmt |-> NoSql,
     storeDown |-> FALSE, wasRegistered |-> FALSE, lookups |-> 0]

\* a handler that has just received a call
Called(op, arg, pc) == [Idle EXCEPT !.pc = pc, !.op = op, !.arg = arg]

NoLast ==
    [op |-> "none", arg |-> <<>>, uuid |-> <<>>, stmt |-> NoSql, result |-> NoResult,
     storeDown |-> FALSE, wasRegistered |-> FALSE, already |-> FALSE, lookups |-> 0]

NoLookup == [made |-> FALSE, uuid |-> <<>>, queried |-> FALSE, qr |-> StoreOk(<<>>),
             found |-> LookupOk(NoProducer)]

\* handler p, in local state h, returns result to its caller
Returns(p, h, result) ==
    /\ procs' = [procs EXCEPT ![p] = Idle]
    /\ last' = [op |-> h.op, arg |-> h.arg, uuid |-> h.uuid, stmt |-> h.stmt,
                result |-> result, storeDown |-> h.storeDown,
                wasRegistered |-> h.wasRegistered, already |-> h.uuid \in returnedOk,
                lookups |-> h.lookups]

\* handler p goes on in local state h
Continues(p, h) ==
    /\ procs' = [procs EXCEPT ![p] = h]
    /\ last' = NoLast

\* the step has made the catalog lookup of uuid, whose query (if sent) ended as qr
Looked(uuid, queried, qr) ==
    looked' = [made |-> TRUE, uuid |-> uuid, queried |-> queried, qr |-> qr,
               found |-> get_producer_row(uuid, qr)]

Digit(n) == CASE n = 1 -> "1" [] n = 2 -> "2" [] n = 3 -> "3" [] n = 4 -> "4" [] OTHER -> "9"

\* the n-th identifier Uuid::new_v4 returns: fresh, free of '.' and '"'
GenUuid(n) == <<"g", Digit(n)>>

RowsIn(t) == IF t \in DOMAIN tables THEN BagCardinality(tables[t].rows) ELSE 0

\* calls in flight that may still append a row to table t
Pending(t) ==
    Cardinality({h \in Handlers :
        \/ procs[h].pc \in {"reg_create", "reg_insert"} /\ t = S_producers
        \/ procs[h].pc \in {"emit_lookup1", "emit_lookup2", "emit_insert"}
              /\ procs[h].arg.uuid = t})

Cap(t) == IF t = S_producers THEN MaxCatalogRows ELSE MaxDataRows

HasRoom(t) == RowsIn(t) + Pending(t) < Cap(t)

\* the outcomes of a statement sent to the store: it runs, or the store fails
Outcomes == {[ok |-> TRUE, text |-> <<>>]} \cup {[ok |-> FALSE, text |-> t] : t \in StoreErrTexts}

\* the text of the driver's or store's refusal of a statement
RefusedText == <<"r", "e", "f", "u", "s", "e", "d">>

\* the outcomes of the catalog query of get_producer_row
QueryOutcomes(uuid) ==
    {StoreOk(SelectProducer(tables, uuid))} \cup {StoreErr(t) : t \in StoreErrTexts}

\* register sending the create-table statement before it looks at the result of
\* validate_registration
RegisterCallCreatesFirst(p, registration) ==
    /\ procs[p].pc = "idle"
    /\ HasRoom(S_producers)
    /\ LET error_code == validate_registration(registration)
       IN  IF error_code # NoError
           THEN /\ Returns(p, Called("register", registration, "idle"),
                           RegistrationResult(error_code, None))
                /\ \E order \in Orderings(DOMAIN registration.schema) :
                      tables' = ExecCreate(tables,
                                    generate_create_table_sql(registration,
                                        get_or_create_uuid_for_registration(
                                            registration, GenUuid(nextUuid + 1)),
                                        order))
                /\ UNCHANGED nextUuid
           ELSE /\ is_some(registration.use_custom_id) \/ nextUuid < MaxUuids
                /\ \E order \in Orderings(DOMAIN registration.schema) :
                      LET uuid == get_or_create_uuid_for_registration(
                                      registration, GenUuid(nextUuid + 1))
                      IN  Continues(p, [Called("register", registration, "reg_create") EXCEPT
                              !.uuid = uuid,
                              !.wasRegistered = uuid \in returnedOk,
                              !.stmt = generate_data_for_creation(registration, uuid, order)])
                /\ nextUuid' = IF is_some(registration.use_custom_id)
                               THEN nextUuid ELSE nextUuid + 1
                /\ UNCHANGED tables
    /\ looked' = NoLookup
    /\ UNCHANGED <<returnedOk, insertedBy, fin, fout>>

\* register, up to the first statement: validate_registration, the identifier
\* and generate_data_for_creation
RegisterCall(p, registration) ==
    /\ procs[p].pc = "idle"
    /\ HasRoom(S_producers)
    /\ LET error_code == validate_registration(registration)
       IN  IF error_code # NoError
           THEN /\ Returns(p, Called("register", registration, "idle"),
                           RegistrationResult(error_code, None))
                /\ UNCHANGED nextUuid
           ELSE /\ is_some(registration.use_custom_id) \/ nextUuid < MaxUuids
                /\ \E order \in Orderings(DOMAIN registration.schema) :
                      LET uuid == get_or_create_uuid_for_registration(
                                      registration, GenUuid(nextUuid + 1))
                      IN  Continues(p, [Called("register", registration, "reg_create") EXCEPT
                              !.uuid = uuid,
                              !.wasRegistered = uuid \in returnedOk,
                              !.stmt = generate_data_for_creation(registration, uuid, order)])
                /\ nextUuid' = IF is_some(registration.use_custom_id)
                               THEN nextUuid ELSE nextUuid + 1
    /\ looked' = NoLookup
    /\ UNCHANGED <<tables, returnedOk, insertedBy, fin, fout>>

\* register returning the identifier together with the error of a failed statement
RegisterFailedWithId(p, text) ==
    Returns(p, [procs[p] EXCEPT !.storeDown = TRUE],
            RegistrationResult(ConductorError("InternalError", text), Some(procs[p].uuid)))

\* what register returns after a statement of persist_registration failed
RegisterFailed(p, text) ==
    Returns(p, [procs[p] EXCEPT !.storeDown = TRUE],
            RegistrationResult(ConductorError("InternalError", text), None))

\* persist_registration going on to the catalog insert whatever the outcome of
\* the create statement
RegCreateTableIgnoresFailure(p) ==
    /\ procs[p].pc = "reg_create"
    /\ \E out \in Outcomes :
          /\ tables' = IF out.ok
                       THEN ExecCreate(tables, procs[p].stmt.create_table_sql)
                       ELSE tables
          /\ Continues(p, [procs[p] EXCEPT !.pc = "reg_insert",
                                           !.storeDown = @ \/ ~out.ok])
    /\ looked' = NoLookup
    /\ UNCHANGED <<nextUuid, returnedOk, insertedBy, fin, fout>>

\* persist_registration: the create-table statement
RegCreateTable(p) ==
    /\ procs[p].pc = "reg_create"
    /\ \E out \in Outcomes :
          IF out.ok
          THEN /\ tables' = ExecCreate(tables, procs[p].stmt.create_table_sql)
               /\ Continues(p, [procs[p] EXCEPT !.pc = "reg_insert"])
          ELSE /\ RegisterFailed(p, out.text)
               /\ UNCHANGED tables
    /\ looked' = NoLookup
    /\ UNCHANGED <<nextUuid, returnedOk, insertedBy, fin, fout>>

\* persist_registration: the catalog insert, and register's result
RegInsertCatalog(p) ==
    /\ procs[p].pc = "reg_insert"
    /\ \E out \in Outcomes :
          LET params == <<procs[p].stmt.producer_name, procs[p].stmt.uuid_copy,
                          procs[p].stmt.schema_json>>
          IN  IF out.ok
              THEN /\ InsertAccepted(tables, InsertProducerSql, params)
                   /\ tables' = ExecInsert(tables, InsertProducerSql, params)
                   /\ Returns(p, procs[p], RegistrationResult(NoError, Some(procs[p].uuid)))
                   /\ returnedOk' = returnedOk \cup {procs[p].uuid}
                   /\ insertedBy' = insertedBy \cup
                          {[uuid |-> procs[p].uuid, registration |-> procs[p].arg]}
              ELSE /\ RegisterFailed(p, out.text)
                   /\ UNCHANGED <<tables, returnedOk, insertedBy>>
    /\ looked' = NoLookup
    /\ UNCHANGED <<nextUuid, fin, fout>>

\* emit: the call arrives; get_producer_row refuses an empty uuid unqueried
EmitCall(p, data) ==
    /\ procs[p].pc = "idle"
    /\ HasRoom(data.uuid)
    /\ IF is_empty(data.uuid)
       THEN /\ Returns(p, [Called("emit", data, "idle") EXCEPT !.lookups = 1],
                       EmitResult(get_producer_row(data.uuid, StoreOk(<<>>)).err))
            /\ Looked(data.uuid, FALSE, StoreOk(<<>>))
       ELSE /\ Continues(p, [Called("emit", data, "emit_lookup1") EXCEPT
                               !.wasRegistered = data.uuid \in returnedOk])
            /\ looked' = NoLookup
    /\ UNCHANGED <<tables, nextUuid, returnedOk, insertedBy, fin, fout>>

\* emit: get_producer_row and validate_emit_schema
EmitLookup1(p) ==
    /\ procs[p].pc = "emit_lookup1"
    /\ \E qr \in QueryOutcomes(procs[p].arg.uuid) :
          LET found == get_producer_row(procs[p].arg.uuid, qr)
              h == [procs[p] EXCEPT !.storeDown = @ \/ ~qr.ok, !.lookups = 1]
          IN  /\ Looked(procs[p].arg.uuid, TRUE, qr)
              /\ IF ~found.ok
                 THEN Returns(p, h, EmitResult(found.err))
                 ELSE IF ~validate_emit_schema(procs[p].arg, found.val)
                 THEN Returns(p, h, EmitResult(ConductorError("InvalidSchema", <<>>)))
                 ELSE Continues(p, [h EXCEPT !.pc = "emit_lookup2"])
    /\ UNCHANGED <<tables, nextUuid, returnedOk, insertedBy, fin, fout>>

\* persist_emit: the second get_producer_row, the coercion loop, get_insert_sql
EmitLookup2(p) ==
    /\ procs[p].pc = "emit_lookup2"
    /\ \E qr \in QueryOutcomes(procs[p].arg.uuid),
          order \in Orderings(DOMAIN procs[p].arg.data) :
          LET found == get_producer_row(procs[p].arg.uuid, qr)
              prep == persist_emit_prepare(procs[p].arg, found.val.schema, order)
              h == [procs[p] EXCEPT !.storeDown = @ \/ ~qr.ok, !.lookups = 2]
          IN  /\ Looked(procs[p].arg.uuid, TRUE, qr)
              /\ IF ~found.ok
                 THEN Returns(p, h, EmitResult(found.err))
                 ELSE IF ~prep.ok
                 THEN Returns(p, h, EmitResult(prep.err))
                 ELSE Continues(p, [h EXCEPT !.pc = "emit_insert",
                                     !.stmt = [sql |-> prep.sql, params |-> prep.params]])
    /\ UNCHANGED <<tables, nextUuid, returnedOk, insertedBy, fin, fout>>

\* persist_emit leaving out the insert of a row the table already holds
EmitInsertDedup(p) ==
    /\ procs[p].pc = "emit_insert"
    /\ \E out \in Outcomes :
          LET sql == procs[p].stmt.sql
              params == procs[p].stmt.params
          IN  IF out.ok /\ InsertAccepted(tables, sql, params)
              THEN /\ tables' = IF BagIn(InsertedRow(tables, sql, params),
                                         tables[sql.table].rows)
                                THEN tables
                                ELSE ExecInsert(tables, sql, params)
                   /\ Returns(p, procs[p], EmitResult(NoError))
              ELSE /\ Returns(p, [procs[p] EXCEPT !.storeDown = @ \/ ~out.ok],
                              EmitResult(ConductorError("InternalError",
                                  IF out.ok THEN RefusedText ELSE out.text)))
                   /\ UNCHANGED tables
    /\ looked' = NoLookup
    /\ UNCHANGED <<nextUuid, returnedOk, insertedBy, fin, fout>>

\* persist_emit dropping the outcome of its insert statement
EmitInsertIgnoresFailure(p) ==
    /\ procs[p].pc = "emit_insert"
    /\ \E out \in Outcomes :
          LET sql == procs[p].stmt.sql
              params == procs[p].stmt.params
          IN  IF out.ok /\ InsertAccepted(tables, sql, params)
              THEN /\ tables' = ExecInsert(tables, sql, params)
                   /\ Returns(p, procs[p], EmitResult(NoError))
              ELSE /\ Returns(p, [procs[p] EXCEPT !.storeDown = @ \/ ~out.ok],
                              EmitResult(NoError))
                   /\ UNCHANGED tables
    /\ looked' = NoLookup
    /\ UNCHANGED <<nextUuid, returnedOk, insertedBy, fin, fout>>

\* persist_emit: the insert statement, and emit's result
EmitInsert(p) ==
    /\ procs[p].pc = "emit_insert"
    /\ \E out \in Outcomes :
          LET sql == procs[p].stmt.sql
              params == procs[p].stmt.params
          IN  IF out.ok /\ InsertAccepted(tables, sql, params)
              THEN /\ tables' = ExecInsert(tables, sql, params)
                   /\ Returns(p, procs[p], EmitResult(NoError))
              ELSE /\ Returns(p, [procs[p] EXCEPT !.storeDown = @ \/ ~out.ok],
                              EmitResult(ConductorError("InternalError",
                                  IF out.ok THEN RefusedText ELSE out.text)))
                   /\ UNCHANGED tables
    /\ looked' = NoLookup
    /\ UNCHANGED <<nextUuid, returnedOk, insertedBy, fin, fout>>

\* check: the call arrives; get_producer_row refuses an empty uuid unqueried
CheckCall(p, uuid) ==
    /\ procs[p].pc = "idle"
    /\ IF is_empty(uuid)
       THEN /\ Returns(p, [Called("check", [uuid |-> uuid], "idle") EXCEPT !.lookups = 1],
                       StatusResult("NotFound"))
            /\ Looked(uuid, FALSE, StoreOk(<<>>))
       ELSE /\ Continues(p, [Called("check", [uuid |-> uuid], "check_lookup") EXCEPT
                               !.wasRegistered = uuid \in returnedOk])
            /\ looked' = NoLookup
    /\ UNCHANGED <<tables, nextUuid, returnedOk, insertedBy, fin, fout>>

\* check: get_producer_row and the status
CheckLookup(p) ==
    /\ procs[p].pc = "check_lookup"
    /\ \E qr \in QueryOutcomes(procs[p].arg.uuid) :
          /\ Looked(procs[p].arg.uuid, TRUE, qr)
          /\ Returns(p, [procs[p] EXCEPT !.storeDown = ~qr.ok, !.lookups = 1],
                     StatusResult(IF get_producer_row(procs[p].arg.uuid, qr).ok
                                  THEN "Ok" ELSE "NotFound"))
    /\ UNCHANGED <<tables, nextUuid, returnedOk, insertedBy, fin, fout>>

-----------------------------------------------------------------------------
(* The calls the handlers receive *)

IntSchema == [c \in {S_x} |-> "Int"]
StringSchema == [c \in {S_x} |-> "String"]
TwoStringSchema == [c \in {S_x, S_y} |-> "String"]
UuidSchema == [c \in {S_uuid} |-> "String"]
EmptySchema == [c \in {} |-> "Int"]

Registrations ==
    {Registration(S_n, IntSchema, None),
     Registration(S_n, StringSchema, Some(S_c1)),
     Registration(S_n, TwoStringSchema, Some(S_c1)),
     Registration(S_n, UuidSchema, Some(S_producers)),
     Registration(<<>>, EmptySchema, None),
     Registration(S_n, EmptySchema, Some(S_a_dot_b)),
     Registration(S_n, EmptySchema, None)}

IntData == [c \in {S_x} |-> JInt(5, 0)]
IntNameData == [c \in {S_x} |-> JStr(S_Int)]
StringNameData == [c \in {S_x} |-> JStr(S_String)]
TwoStringNameData == [c \in {S_x, S_y} |-> JStr(S_String)]
UuidData == [c \in {S_uuid} |-> JStr(S_String)]
EmptyData == [c \in {} |-> JNull]

Timestamps == {None}

Emits ==
    {Emit(u, t, d) : t \in Timestamps,
                     u \in {GenUuid(1)}, d \in {IntData, IntNameData}}
    \cup {Emit(u, t, d) : t \in Timestamps,
                          u \in {S_c1}, d \in {StringNameData, TwoStringNameData, EmptyData}}
    \cup {Emit(u, t, d) : t \in Timestamps,
                          u \in {S_producers}, d \in {UuidData}}
    \cup {Emit(u, t, d) : t \in Timestamps,
                          u \in {<<>>, S_String}, d \in {StringNameData}}

CheckUuids == {<<>>, S_c1, S_producers, GenUuid(1), S_String}

-----------------------------------------------------------------------------
(* The server: handlers serving calls against the store *)

NoFin == [set |-> FALSE, val |-> <<>>]

\* the server once launched: the catalog table exists, no call has arrived
InitServer ==
    /\ tables = create_app_schema
    /\ procs = [h \in Handlers |-> Idle]
    /\ last = NoLast
    /\ looked = NoLookup
    /\ nextUuid = 0
    /\ returnedOk = {}
    /\ insertedBy = {}

Init ==
    /\ InitServer
    /\ fin = NoFin
    /\ fout = NoFin

\* One handler: the calls are served one after the other, each statement of a
\* call a step of its own, against a store that may fail at any statement.
Next ==
    \E p \in {"h1"} :
        \/ \E registration \in Registrations : RegisterCall(p, registration)
        \/ RegCreateTable(p)
        \/ RegInsertCatalog(p)
        \/ \E data \in Emits : EmitCall(p, data)
        \/ EmitLookup1(p)
        \/ EmitLookup2(p)
        \/ EmitInsert(p)
        \/ \E uuid \in CheckUuids : CheckCall(p, uuid)
        \/ CheckLookup(p)

Spec == Init /\ [][Next]_vars

\* Two handlers serving calls about one producer identifier at the same time:
\* their statements interleave in every order.
ConcRegistrations == {r \in Registrations : r.use_custom_id = Some(S_c1)}
ConcEmits == {e \in Emits : e.uuid = S_c1}
ConcCheckUuids == {S_c1}

NextConc ==
    \E p \in Handlers :
        \/ \E registration \in ConcRegistrations : RegisterCall(p, registration)
        \/ RegCreateTable(p)
        \/ RegInsertCatalog(p)
        \/ \E data \in ConcEmits : EmitCall(p, data)
        \/ EmitLookup1(p)
        \/ EmitLookup2(p)
        \/ EmitInsert(p)
        \/ \E uuid \in ConcCheckUuids : CheckCall(p, uuid)
        \/ CheckLookup(p)

SpecConc == Init /\ [][NextConc]_vars

-----------------------------------------------------------------------------
(* validate_registration on its own *)

ValidateNames == {<<>>, S_n}
ValidateCustomIds == {None, Some(<<>>), Some(S_a_dot_b), Some(S_q_quote), Some(S_c1)}
ValidateColumns == {S_x, S_ts, S_a_dot_b, S_q_quote}
ValidateTypes == {"Int", "String"}

ValidateSchemas ==
    UNION {[cols -> ValidateTypes] :
              cols \in {c \in SUBSET ValidateColumns : Cardinality(c) <= MaxCols}}

ValidateInputs ==
    {Registration(n, sch, id) :
        n \in ValidateNames, sch \in ValidateSchemas, id \in ValidateCustomIds}

InitValidate ==
    /\ InitServer
    /\ fin \in {[set |-> TRUE, val |-> r] : r \in ValidateInputs}
    /\ fout = NoFin

Validate ==
    /\ ~fout.set
    /\ fout' = [set |-> TRUE, val |-> validate_registration(fin.val)]
    /\ UNCHANGED <<tables, procs, last, looked, nextUuid, returnedOk, insertedBy, fin>>

SpecValidate == InitValidate /\ [][Validate]_vars

-----------------------------------------------------------------------------
(* to_solid_type_from_json on its own, and as persist_emit applies it *)

S_date ==
    <<"2", "0", "2", "1", "-", "0", "3", "-", "0", "4", "T",
      "0", "5", ":", "0", "6", ":", "0", "7">>

\* 12345678901234.0, a literal of 14 integer digits, kept to its eight leading
\* digits: 12345678 * 10^6
BigFloat == JFloat(12345678, 6)

CoerceValues ==
    {JNull, JBool(TRUE), JInt(5, 0), JInt(92233721, 11), BigFloat, JFloat(35, 37),
     JFloat(-35, 37), JFloat(15, -1), JStr(S_String), JStr(S_date), JStr(<<"5">>),
     JArr(<<1, 2>>), JArr(<<256>>)}

CoerceInputs == {[val |-> v, data_type |-> dt] : v \in CoerceValues, dt \in DataTypes}

InitCoerce ==
    /\ InitServer
    /\ fin \in {[set |-> TRUE, val |-> i] : i \in CoerceInputs}
    /\ fout = NoFin

\* the coercion of one value, and the coercion loop of persist_emit for an emit
\* of that value in column x of a producer whose schema declares x of that type
Coerce ==
    /\ ~fout.set
    /\ fout' = [set |-> TRUE,
                val |-> [coerced |-> to_solid_type_from_json(fin.val.val, fin.val.data_type),
                         prep |-> coerce_fields(
                                      Emit(S_c1, None, [c \in {S_x} |-> fin.val.val]),
                                      [c \in {S_x} |-> fin.val.data_type],
                                      <<S_x>>)]]
    /\ UNCHANGED <<tables, procs, last, looked, nextUuid, returnedOk, insertedBy, fin>>

SpecCoerce == InitCoerce /\ [][Coerce]_vars

-----------------------------------------------------------------------------
(* get_insert_sql on its own *)

MaxInsertCols == 3

\* the key lists persist_emit can collect from a map: no key twice
ColumnLists ==
    {order \in UNION {[1..n -> {S_x, S_y, S_z}] : n \in 0..MaxInsertCols} :
        \A i, j \in 1..Len(order) : i # j => order[i] # order[j]}

InsertSqlInputs ==
    {[emit |-> Emit(u, None, [c \in {order[i] : i \in 1..Len(order)} |-> JStr(S_String)]),
      column_names |-> order] :
        u \in {S_c1, S_producers, S_String, GenUuid(1)}, order \in ColumnLists}

InitInsertSql ==
    /\ InitServer
    /\ fin \in {[set |-> TRUE, val |-> i] : i \in InsertSqlInputs}
    /\ fout = NoFin

InsertSql ==
    /\ ~fout.set
    /\ fout' = [set |-> TRUE, val |-> get_insert_sql(fin.val.emit, fin.val.column_names)]
    /\ UNCHANGED <<tables, procs, last, looked, nextUuid, returnedOk, insertedBy, fin>>

SpecInsertSql == InitInsertSql /\ [][InsertSql]_vars

-----------------------------------------------------------------------------
(* generate_create_table_sql on its own *)

CreateSqlSchemas ==
    UNION {[cols -> DataTypes] :
              cols \in {c \in SUBSET {S_x, S_y, S_z} : Cardinality(c) <= MaxCols}}

\* a schema, a table name and the order in which the schema's map is iterated
CreateSqlInputs ==
    {[registration |-> Registration(S_n, sch, None), table_name |-> t, order |-> o] :
        sch \in CreateSqlSchemas, t \in {S_c1, GenUuid(1)},
        o \in UNION {Orderings(DOMAIN x) : x \in CreateSqlSchemas}}

InitCreateSql ==
    /\ InitServer
    /\ fin \in {[set |-> TRUE, val |-> i] :
                  i \in {x \in CreateSqlInputs :
                            x.order \in Orderings(DOMAIN x.registration.schema)}}
    /\ fout = NoFin

CreateSql ==
    /\ ~fout.set
    /\ fout' = [set |-> TRUE,
                val |-> generate_create_table_sql(fin.val.registration, fin.val.table_name,
                                                  fin.val.order)]
    /\ UNCHANGED <<tables, procs, last, looked, nextUuid, returnedOk, insertedBy, fin>>

SpecCreateSql == InitCreateSql /\ [][CreateSql]_vars

-----------------------------------------------------------------------------
(* schema::Builder: fin.val is the sequence of add calls made on the builder,
   fout.val the schema the builder holds, fout.set whether build() returned it *)

MaxAdds == 3

BuilderNames == {S_x, S_y}
BuilderColumnTypes == {"Int", "String"}

\* HashMap::insert
insert(map, key, value) ==
    [c \in DOMAIN map \cup {key} |-> IF c = key THEN value ELSE map[c]]

AddCall(fn, name, col_type) == [fn |-> fn, name |-> name, col_type |-> col_type]

\* Builder::new
InitBuilder ==
    /\ InitServer
    /\ fin = [set |-> TRUE, val |-> <<>>]
    /\ fout = [set |-> FALSE, val |-> <<>>]

BuilderFrame == UNCHANGED <<tables, procs, last, looked, nextUuid, returnedOk, insertedBy>>

add_column(name, col_type) ==
    /\ ~fout.set
    /\ Len(fin.val) < MaxAdds
    /\ fout' = [fout EXCEPT !.val = insert(@, name, col_type)]
    /\ fin' = [fin EXCEPT !.val = Append(@, AddCall("add_column", name, col_type))]
    /\ BuilderFrame

add_int(name) ==
    /\ ~fout.set
    /\ Len(fin.val) < MaxAdds
    /\ fout' = [fout EXCEPT !.val = insert(@, name, "Int")]
    /\ fin' = [fin EXCEPT !.val = Append(@, AddCall("add_int", name, ""))]
    /\ BuilderFrame

add_float(name) ==
    /\ ~fout.set
    /\ Len(fin.val) < MaxAdds
    /\ fout' = [fout EXCEPT !.val = insert(@, name, "Float")]
    /\ fin' = [fin EXCEPT !.val = Append(@, AddCall("add_float", name, ""))]
    /\ BuilderFrame

add_time(name) ==
    /\ ~fout.set
    /\ Len(fin.val) < MaxAdds
    /\ fout' = [fout EXCEPT !.val = insert(@, name, "Time")]
    /\ fin' = [fin EXCEPT !.val = Append(@, AddCall("add_time", name, ""))]
    /\ BuilderFrame

add_binary(name) ==
    /\ ~fout.set
    /\ Len(fin.val) < MaxAdds
    /\ fout' = [fout EXCEPT !.val = insert(@, name, "Binary")]
    /\ fin' = [fin EXCEPT !.val = Append(@, AddCall("add_binary", name, ""))]
    /\ BuilderFrame

add_string(name) ==
    /\ ~fout.set
    /\ Len(fin.val) < MaxAdds
    /\ fout' = [fout EXCEPT !.val = insert(@, name, "String")]
    /\ fin' = [fin EXCEPT !.val = Append(@, AddCall("add_string", name, ""))]
    /\ BuilderFrame

add_bool(name) ==
    /\ ~fout.set
    /\ Len(fin.val) < MaxAdds
    /\ fout' = [fout EXCEPT !.val = insert(@, name, "Bool")]
    /\ fin' = [fin EXCEPT !.val = Append(@, AddCall("add_bool", name, ""))]
    /\ BuilderFrame

\* add_double inserting the type of add_float
add_double_as_float(name) ==
    /\ ~fout.set
    /\ Len(fin.val) < MaxAdds
    /\ fout' = [fout EXCEPT !.val = insert(@, name, "Float")]
    /\ fin' = [fin EXCEPT !.val = Append(@, AddCall("add_double", name, ""))]
    /\ BuilderFrame

add_double(name) ==
    /\ ~fout.set
    /\ Len(fin.val) < MaxAdds
    /\ fout' = [fout EXCEPT !.val = insert(@, name, "Double")]
    /\ fin' = [fin EXCEPT !.val = Append(@, AddCall("add_double", name, ""))]
    /\ BuilderFrame

build ==
    /\ ~fout.set
    /\ fout' = [fout EXCEPT !.set = TRUE]
    /\ UNCHANGED fin
    /\ BuilderFrame

NextBuilder ==
    \/ \E name \in BuilderNames, col_type \in BuilderColumnTypes : add_column(name, col_type)
    \/ \E name \in BuilderNames : add_int(name)
    \/ \E name \in BuilderNames : add_float(name)
    \/ \E name \in BuilderNames : add_time(name)
    \/ \E name \in BuilderNames : add_binary(name)
    \/ \E name \in BuilderNames : add_string(name)
    \/ \E name \in BuilderNames : add_bool(name)
    \/ \E name \in BuilderNames : add_double(name)
    \/ build

SpecBuilder == InitBuilder /\ [][NextBuilder]_vars

-----------------------------------------------------------------------------
(* Display for ConductorError *)

\* the identifier of each variant of ConductorError
ErrorName(kind) ==
    CASE kind = "NoError" -> 
            <<"N", "o", "E", "r", "r", "o", "r">>
      [] kind = "TimestampDefined" -> 
            <<"T", "i", "m", "e", "s", "t", "a", "m", "p", "D", "e", "f", "i",
            "n", "e", "d">>
      [] kind = "NoMembers" -> 
            <<"N", "o", "M", "e", "m", "b", "e", "r", "s">>
      [] kind = "InvalidColumnNames" -> 
            <<"I", "n", "v", "a", "l", "i", "d", "C", "o", "l", "u", "m", "n",
            "N", "a", "m", "e", "s">>
      [] kind = "TooManyColumns" -> 
            <<"T", "o", "o", "M", "a", "n", "y", "C", "o", "l", "u", "m", "n",
            "s">>
      [] kind = "InternalError" -> 
            <<"I", "n", "t", "e", "r", "n", "a", "l", "E", "r", "r", "o",
            "r">>
      [] kind = "InvalidUuid" -> 
            <<"I", "n", "v", "a", "l", "i", "d", "U", "u", "i", "d">>
      [] kind = "NameInvalid" -> 
            <<"N", "a", "m", "e", "I", "n", "v", "a", "l", "i", "d">>
      [] kind = "Unregistered" -> 
            <<"U", "n", "r", "e", "g", "i", "s", "t", "e", "r", "e", "d">>
      [] kind = "InvalidData" -> 
            <<"I", "n", "v", "a", "l", "i", "d", "D", "a", "t", "a">>
      [] kind = "InvalidSchema" -> 
            <<"I", "n", "v", "a", "l", "i", "d", "S", "c", "h", "e", "m",
            "a">>

\* <ConductorError as Display>::fmt: the text written
fmt(self) ==
    CASE self.kind = "NoError" -> ErrorName("NoError")
      [] self.kind = "TimestampDefined" -> ErrorName("NoError") \o <<":", " ">> \o self.detail
      [] self.kind = "NoMembers" -> ErrorName("NoMembers") \o <<":", " ">> \o self.detail
      [] self.kind = "InvalidColumnNames" -> ErrorName("InvalidColumnNames") \o <<":", " ">> \o self.detail
      [] self.kind = "TooManyColumns" -> ErrorName("TooManyColumns") \o <<":", " ">> \o self.detail
      [] self.kind = "InternalError" -> ErrorName("InternalError") \o <<":", " ">> \o self.detail
      [] self.kind = "InvalidUuid" -> ErrorName("InvalidUuid") \o <<":", " ">> \o self.detail
      [] self.kind = "NameInvalid" -> ErrorName("NameInvalid") \o <<":", " ">> \o self.detail
      [] self.kind = "Unregistered" -> ErrorName("Unregistered") \o <<":", " ">> \o self.detail
      [] self.kind = "InvalidData" -> ErrorName("InvalidData") \o <<":", " ">> \o self.detail
      [] self.kind = "InvalidSchema" -> ErrorName("InvalidSchema") \o <<":", " ">> \o self.detail

DisplayMessages == {<<>>, S_x, S_n, S_ts, S_String, S_a_dot_b}

DisplayErrors ==
    {NoError} \cup {ConductorError(kind, message) :
                       kind \in ErrorKinds \ {"NoError"}, message \in DisplayMessages}

InitDisplay ==
    /\ InitServer
    /\ fin \in {[set |-> TRUE, val |-> e] : e \in DisplayErrors}
    /\ fout = NoFin

\* the error is rendered
Display ==
    /\ ~fout.set
    /\ fout' = [set |-> TRUE, val |-> fmt(fin.val)]
    /\ UNCHANGED <<tables, procs, last, looked, nextUuid, returnedOk, insertedBy, fin>>

SpecDisplay == InitDisplay /\ [][Display]_vars

-----------------------------------------------------------------------------
(* emit and persist_emit on a given catalog row: fin.val is the Emit, the
   registration its producer was registered with and the iteration order of the
   data; fout.val what the call decides and the statement persist_emit builds *)

TimestampValues == {None, Some(0), Some(7)}

TimestampInputs ==
    {[emit |-> Emit(S_c1, t, [c \in {S_x} |-> v]), schema |-> schema, order |-> <<S_x>>] :
        t \in TimestampValues, v \in CoerceValues \cup {JStr(S_Int)},
        schema \in {IntSchema, StringSchema}}
    \cup {[emit |-> Emit(S_c1, t, TwoStringNameData), schema |-> TwoStringSchema,
           order |-> order] :
            t \in TimestampValues, order \in Orderings({S_x, S_y})}

\* the catalog row persist_registration writes for the producer
ProducerRow(schema, uuid) ==
    LET data == generate_data_for_creation(Registration(S_n, schema, Some(uuid)), uuid, <<>>)
    IN  [c \in {S_name, S_uuid, S_schema} |->
            CASE c = S_name -> data.producer_name
              [] c = S_uuid -> data.uuid_copy
              [] c = S_schema -> data.schema_json]

\* emit up to the insert statement, both lookups returning the one row of the
\* producer
emit_to_row(data, row, order) ==
    LET found == get_producer_row(data.uuid, StoreOk(<<row>>))
        prep == persist_emit_prepare(data, found.val.schema, order)
    IN  IF ~found.ok
        THEN [error |-> found.err, stmt |-> NoSql]
        ELSE IF ~validate_emit_schema(data, found.val)
        THEN [error |-> ConductorError("InvalidSchema", <<>>), stmt |-> NoSql]
        ELSE IF ~prep.ok
        THEN [error |-> prep.err, stmt |-> NoSql]
        ELSE [error |-> NoError, stmt |-> [sql |-> prep.sql, params |-> prep.params]]

InitTimestamp ==
    /\ InitServer
    /\ fin \in {[set |-> TRUE, val |-> i] : i \in TimestampInputs}
    /\ fout = NoFin

\* the Emit is served, and persist_emit builds its statement from the row
ServeEmit ==
    /\ ~fout.set
    /\ LET row == ProducerRow(fin.val.schema, fin.val.emit.uuid)
       IN  fout' = [set |-> TRUE,
                    val |-> [served |-> emit_to_row(fin.val.emit, row, fin.val.order),
                             prep |-> persist_emit_prepare(fin.val.emit, row[S_schema],
                                                           fin.val.order)]]
    /\ UNCHANGED <<tables, procs, last, looked, nextUuid, returnedOk, insertedBy, fin>>

SpecTimestamp == InitTimestamp /\ [][ServeEmit]_vars

-----------------------------------------------------------------------------
(* Claims *)

Kind(result) == result.error.kind

\* the checks of registration validation, as the specification lists them
NameEmpty(r) == r.name = <<>>
CustomIdBad(r) ==
    r.use_custom_id # None /\ (r.use_custom_id.v = <<>> \/ HasIllegalChars(r.use_custom_id.v))
HasTs(r) == S_ts \in DOMAIN r.schema
SchemaEmpty(r) == DOMAIN r.schema = {}
ColumnBad(r) == \E c \in DOMAIN r.schema : HasIllegalChars(c)
TooMany(r) == Cardinality(DOMAIN r.schema) > 2147483647

C2_IdIffNoError ==
    last.op = "register" => (last.result.uuid # None <=> Kind(last.result) = "NoError")

\* a Register whose table was created and whose catalog insert the store failed
\* has returned an error and no id
C2_Witness ==
    /\ last.op = "register"
    /\ last.storeDown
    /\ last.uuid \in DOMAIN tables
    /\ \A r \in insertedBy : r.uuid # last.uuid
    /\ Kind(last.result) = "InternalError"
    /\ last.result.uuid = None

\* the identifiers some Register call assigned and inserted into the catalog
RegisteredIds == {r.uuid : r \in insertedBy}

\* C3: after Register {name "n", schema {x: Int}} returned an id, Emit {id,
\* data {x: 5}} returns NoError and its parameter for x is the 64-bit integer 5,
\* the store being healthy.
C3_RoundTrip ==
    (/\ last.op = "emit"
     /\ last.arg.data = IntData
     /\ [uuid |-> last.arg.uuid, registration |-> Registration(S_n, IntSchema, None)]
            \in insertedBy
     /\ ~last.storeDown)
    => (/\ Kind(last.result) = "NoError"
        /\ last.stmt.params = <<[k |-> "i64", v |-> <<5, 0>>]>>)

\* the emit is served by a call whose data keys differ from the keys of a schema
\* registered under its producer id
KeysDiffer(h) ==
    /\ h.op = "emit"
    /\ \E r \in insertedBy :
          r.uuid = h.arg.uuid /\ DOMAIN r.registration.schema # DOMAIN h.arg.data

\* C4: no step of an Emit to a registered producer whose data key set differs
\* from the registered schema's key set inserts a row, and the result it returns
\* is not NoError; this covers data with an extra column and data lacking one.
C4_KeySetRejected ==
    [][\A p \in Handlers :
          KeysDiffer(procs[p]) =>
              /\ tables' = tables
              /\ (procs'[p].pc = "idle" /\ last'.op = "emit")
                    => Kind(last'.result) # "NoError"]_vars

\* an Emit of {x} to a producer registered once, with schema {x, y}, has been
\* rejected by the schema comparison, the store healthy
C4_Witness ==
    /\ last.op = "emit"
    /\ last.arg = Emit(S_c1, None, StringNameData)
    /\ {r.registration.schema : r \in {q \in insertedBy : q.uuid = S_c1}}
          = {TwoStringSchema}
    /\ BagCardinality(tables[S_producers].rows) = 1
    /\ ~last.storeDown
    /\ Kind(last.result) = "InvalidSchema"
    /\ BagCardinality(tables[S_c1].rows) = 0

\* C5: a Register with a custom id never returns NoError with that id when
\* another Register with the same id, running at the same time, has returned
\* NoError with it.
C5_NotBothNoError ==
    ~(/\ last.op = "register"
      /\ Kind(last.result) = "NoError"
      /\ ~last.wasRegistered
      /\ last.already)

\* C6: the catalog never holds two rows with the same uuid.
C6_UuidUnique ==
    LET rows == tables[S_producers].rows
    IN  \A r1, r2 \in DOMAIN rows :
           /\ rows[r1] = 1
           /\ r1 # r2 => r1[S_uuid] # r2[S_uuid]

\* C7: once Register has returned NoError with an id, every CheckRegistered of
\* that id whose query the store answers returns true, and every catalog lookup
\* of that id whose query the store answers succeeds.
C7_RegisteredTerminal ==
    /\ (last.op = "check" /\ last.wasRegistered /\ ~last.storeDown)
          => last.result.status = "Ok"
    /\ (looked.made /\ looked.qr.ok /\ looked.uuid \in returnedOk)
          => looked.found.ok

\* C8: the catalog table changes only in the catalog insert of a Register, and
\* CheckRegistered returns true only for an id some Register call assigned and
\* inserted.
C8_CatalogFrame ==
    [][/\ tables'[S_producers] # tables[S_producers]
          => \E p \in Handlers : procs[p].pc = "reg_insert" /\ procs'[p].pc = "idle"
       /\ (last'.op = "check" /\ last'.result.status = "Ok")
          => last'.arg.uuid \in RegisteredIds']_vars

\* C9: an Emit whose catalog lookup failed returns the lookup's error kind and
\* inserts nothing; an Emit to an id never registered returns Unregistered and
\* an Emit with an empty id returns InvalidUuid.
C9_LookupErrorPassedThrough ==
    [][/\ (looked'.made /\ ~looked'.found.ok
              /\ \E p \in Handlers : procs[p].op = "emit" \/ last'.op = "emit")
          => /\ tables' = tables
             /\ last'.op = "emit"
             /\ Kind(last'.result) = looked'.found.err.kind
       /\ (last'.op = "emit" /\ last'.arg.uuid = <<>>)
          => Kind(last'.result) = "InvalidUuid"
       /\ (last'.op = "emit" /\ last'.arg.uuid # <<>>
              /\ last'.arg.uuid \notin RegisteredIds')
          => Kind(last'.result) = "Unregistered"]_vars

\* a field of a catalog row that reads as the empty string
FieldEmpty(cell) == cell = NullCell \/ cell = Str(<<>>)

Malformed(row) == FieldEmpty(row[S_name]) \/ FieldEmpty(row[S_uuid]) \/ FieldEmpty(row[S_schema])

\* C10: a catalog lookup of an empty id fails with InvalidUuid without a query;
\* otherwise it queries, and fails with Unregistered when the query fails or
\* returns no row, with InternalError when it returns more than one row or one
\* row with an empty field, and returns the record of a single well-formed row.
C10_LookupClassification ==
    looked.made =>
        LET u == looked.uuid
            qr == looked.qr
            f == looked.found
        IN  /\ (u = <<>>) => (~looked.queried /\ ~f.ok /\ f.err.kind = "InvalidUuid")
            /\ (u # <<>>) => looked.queried
            /\ (u # <<>> /\ (~qr.ok \/ Len(qr.rows) = 0))
                  => (~f.ok /\ f.err.kind = "Unregistered")
            /\ (u # <<>> /\ qr.ok /\ Len(qr.rows) > 1)
                  => (~f.ok /\ f.err.kind = "InternalError")
            /\ (u # <<>> /\ qr.ok /\ Len(qr.rows) = 1 /\ Malformed(qr.rows[1]))
                  => (~f.ok /\ f.err.kind = "InternalError")
            /\ (u # <<>> /\ qr.ok /\ Len(qr.rows) = 1 /\ ~Malformed(qr.rows[1]))
                  => /\ f.ok
                     /\ f.val = [name |-> qr.rows[1][S_name],
                                 uuid |-> qr.rows[1][S_uuid],
                                 schema |-> qr.rows[1][S_schema]]

\* a lookup whose query returned two rows for the id has failed with InternalError
C10_Witness ==
    /\ looked.made
    /\ looked.qr.ok
    /\ Len(looked.qr.rows) = 2
    /\ ~looked.found.ok
    /\ looked.found.err.kind = "InternalError"

\* C11: the value 12345678901234.0 is rejected for a Float column, the emit
\* failing with InvalidData, and accepted for a Double column.
C11_FloatRejectedDoubleAccepted ==
    (fout.set /\ fin.val.val = BigFloat) =>
        /\ fin.val.data_type = "Float" =>
              /\ ~fout.val.coerced.ok
              /\ fout.val.prep.err.kind = "InvalidData"
        /\ fin.val.data_type = "Double" =>
              /\ fout.val.coerced.ok
              /\ fout.val.prep.ok

\* C11 (as amended): 12345678901234.0 lies inside the 32-bit float range and is
\* accepted for a Float column, as an f32, and for a Double column, as an f64;
\* a value beyond f32::MAX or f32::MIN is rejected for a Float column, the emit
\* failing with InvalidData, and accepted for a Double column.
C11_FloatRangeCheck ==
    fout.set =>
        /\ (fin.val.val = BigFloat /\ fin.val.data_type = "Float")
              => (fout.val.coerced.ok /\ fout.val.coerced.val.k = "f32" /\ fout.val.prep.ok)
        /\ (fin.val.val \in {BigFloat, JFloat(35, 37), JFloat(-35, 37)}
              /\ fin.val.data_type = "Double")
              => (fout.val.coerced.ok /\ fout.val.coerced.val.k = "f64" /\ fout.val.prep.ok)
        /\ (fin.val.val \in {JFloat(35, 37), JFloat(-35, 37)} /\ fin.val.data_type = "Float")
              => (~fout.val.coerced.ok /\ fout.val.prep.err.kind = "InvalidData")

\* 12345678901234.0 has been coerced for a Float column and accepted
C11_Witness ==
    /\ fout.set
    /\ fin.val = [val |-> BigFloat, data_type |-> "Float"]
    /\ fout.val.coerced.ok

C14_InsertPlaceholders ==
    fout.set =>
        LET names == fin.val.column_names
        IN  IF Len(names) = 0
            THEN ~fout.val.ok
            ELSE /\ fout.val.ok
                 /\ fout.val.val.kind = "insert"
                 /\ fout.val.val.table = fin.val.emit.uuid
                 /\ fout.val.val.columns = names
                 /\ fout.val.val.values = [i \in 1..Len(names) |-> i]

\* the column type label of each DataType, as the specification lists them
TypeLabel(dt) ==
    CASE dt = "Int" -> "long"
      [] dt = "Float" -> "float"
      [] dt = "Time" -> "timestamp"
      [] dt = "String" -> "string"
      [] dt = "Binary" -> "binary"
      [] dt = "Bool" -> "boolean"
      [] dt = "Double" -> "double"

\* C15: the create-table statement is a CREATE TABLE IF NOT EXISTS of the given
\* table; its column list starts with ts TIMESTAMP, then holds each schema
\* column exactly once with the type label of its DataType, and nothing else;
\* ts is the designated timestamp.
C15_CreateTableShape ==
    fout.set =>
        LET schema == fin.val.registration.schema
            sql == fout.val
        IN  /\ sql.kind = "create_if_not_exists"
            /\ sql.table = fin.val.table_name
            /\ Len(sql.columns) = 1 + Cardinality(DOMAIN schema)
            /\ sql.columns[1] = [name |-> S_ts, type |-> "TIMESTAMP"]
            /\ \A c \in DOMAIN schema :
                  Cardinality({i \in 2..Len(sql.columns) : sql.columns[i].name = c}) = 1
            /\ \A i \in 2..Len(sql.columns) :
                  /\ sql.columns[i].name \in DOMAIN schema
                  /\ sql.columns[i].type = TypeLabel(schema[sql.columns[i].name])
            /\ sql.timestamp = S_ts

\* the statement for the schema {x: Float, y: Binary}, iterated y first, has been
\* generated
C15_Witness ==
    /\ fout.set
    /\ fin.val.registration.schema = [c \in {S_x, S_y} |-> IF c = S_x THEN "Float" ELSE "Binary"]
    /\ fin.val.order = <<S_y, S_x>>
    /\ Len(fout.val.columns) = 3
    /\ fout.val.columns[2] = [name |-> S_y, type |-> "binary"]
    /\ fout.val.columns[3] = [name |-> S_x, type |-> "float"]

\* the errors of registration validation
ValidationErrors ==
    {"NameInvalid", "InvalidUuid", "TimestampDefined", "NoMembers", "InvalidColumnNames",
     "TooManyColumns"}

\* the errors of an emit whose data does not have the registered shape
ShapeErrors == {"InvalidSchema", "InvalidColumnNames", "InvalidData"}

\* C16: a Register rejected by validation, and an Emit rejected for a field-set
\* mismatch, an unknown column or a coercion failure, have sent nothing to the
\* store, not even a query, and leave every table unchanged.
C16_NoStoreInteraction ==
    [][/\ (last'.op = "register" /\ Kind(last'.result) \in ValidationErrors)
          => /\ tables' = tables
             /\ last'.stmt = NoSql
             /\ \A p \in Handlers : procs[p].pc = "idle"
       /\ (last'.op = "emit" /\ Kind(last'.result) \in ShapeErrors)
          => /\ tables' = tables
             /\ last'.stmt = NoSql
             /\ last'.lookups = 0
             /\ ~looked'.queried
       /\ (tables' # tables)
          => \E p \in Handlers : procs[p].pc \in {"reg_create", "reg_insert", "emit_insert"}]_vars

\* C16 (as amended): a Register rejected by validation returns in the step it
\* arrived, with no statement built or sent and every table unchanged; an Emit
\* rejected for its shape has sent the catalog queries of its lookups only (one
\* before a field-set mismatch, two before an unknown column or a coercion
\* failure), has built no insert statement, and returns with every table
\* unchanged; no step before a create-table or insert statement changes a table.
C16_NoWriteOnShapeError ==
    [][/\ (last'.op = "register" /\ Kind(last'.result) \in ValidationErrors)
          => /\ tables' = tables
             /\ last'.stmt = NoSql
             /\ \A p \in Handlers : procs[p].pc = "idle"
       /\ (last'.op = "emit" /\ Kind(last'.result) \in ShapeErrors)
          => /\ tables' = tables
             /\ last'.stmt = NoSql
             /\ \E p \in Handlers : procs[p].pc \in {"emit_lookup1", "emit_lookup2"}
             /\ last'.lookups = (IF Kind(last'.result) = "InvalidSchema" THEN 1 ELSE 2)
             /\ looked'.queried
       /\ (tables' # tables)
          => \E p \in Handlers : procs[p].pc \in {"reg_create", "reg_insert", "emit_insert"}]_vars

\* an Emit of a type name to an Int column has been rejected as InvalidData
\* after its two lookups, its table empty
C16_Witness ==
    /\ last.op = "emit"
    /\ last.arg.data = IntNameData
    /\ Kind(last.result) = "InvalidData"
    /\ last.lookups = 2
    /\ last.stmt = NoSql
    /\ RowsIn(last.arg.uuid) = 0

\* C17: a Register that met a store failure returns InternalError and no id, and
\* an Emit that met a store failure returns InternalError.
C17_StoreFailureInternalError ==
    /\ (last.op = "register" /\ last.storeDown)
          => (Kind(last.result) = "InternalError" /\ last.result.uuid = None)
    /\ (last.op = "emit" /\ last.storeDown) => Kind(last.result) = "InternalError"

\* C17 (as amended): a Register whose create-table or catalog insert failed
\* returns InternalError and no id; an Emit whose insert failed returns
\* InternalError; an Emit whose catalog query failed returns Unregistered; none of
\* them returns NoError.
C17_StoreFailureByStatement ==
    /\ (last.op = "register" /\ last.storeDown)
          => (Kind(last.result) = "InternalError" /\ last.result.uuid = None)
    /\ (last.op = "emit" /\ last.storeDown)
          => /\ Kind(last.result) # "NoError"
             /\ Kind(last.result) =
                   IF looked.made /\ ~looked.qr.ok THEN "Unregistered" ELSE "InternalError"
             /\ (looked.made /\ ~looked.qr.ok) <=> (last.stmt = NoSql)

\* an Emit whose insert statement the store failed has returned InternalError
C17_Witness ==
    /\ last.op = "emit"
    /\ last.storeDown
    /\ last.stmt # NoSql
    /\ ~looked.made
    /\ Kind(last.result) = "InternalError"

\* C18: the result of a Register or an Emit carries no error text of the store,
\* so that two runs differing only in that text return the same result.
C18_NoStoreTextInResult ==
    (last.op \in {"register", "emit"})
        => (last.result.error.detail \notin StoreErrTexts \cup {RefusedText})

\* C19: a Register that repeats one already performed (same name, schema and
\* custom id) changes no table and no catalog row, and does not fail while the
\* store is healthy.
C19_RegisterIdempotent ==
    [][\A p \in Handlers :
          (procs[p].op = "register"
              /\ procs[p].arg \in {r.registration : r \in insertedBy})
          => /\ tables' = tables
             /\ (last'.op = "register" /\ ~last'.storeDown)
                   => Kind(last'.result) = "NoError"]_vars

\* the Rust type a value of each DataType is sent as
ParamTag(dt) ==
    CASE dt = "Int" -> "i64"
      [] dt = "Float" -> "f32"
      [] dt = "Time" -> "timestamp"
      [] dt = "String" -> "string"
      [] dt = "Binary" -> "bytes"
      [] dt = "Bool" -> "bool"
      [] dt = "Double" -> "f64"

\* row holds the emitted data, each value as the type the schema declares for its
\* column, and NULL in every other column
RowOfData(row, data, schema) ==
    \A c \in DOMAIN row :
        IF c \in DOMAIN data
        THEN c \in DOMAIN schema /\ row[c] = [k |-> ParamTag(schema[c]), v |-> data[c].v]
        ELSE row[c] = NullCell

\* C20: every row an Emit inserts into the table of its producer id matches a
\* registration of that id: the columns it fills belong to the registered schema
\* and hold the emitted values as the DataTypes the schema declares; a data
\* table changes only by such an insert.
C20_EmittedRowsMatchSchema ==
    [][/\ \A p \in Handlers :
             (procs[p].pc = "emit_insert" /\ tables' # tables) =>
                 LET t == procs[p].arg.uuid
                 IN  \E r \in insertedBy, row \in DOMAIN tables'[t].rows :
                        /\ r.uuid = t
                        /\ tables' = [tables EXCEPT ![t].rows = @ (+) SetToBag({row})]
                        /\ RowOfData(row, procs[p].arg.data, r.registration.schema)
       /\ \A t \in DOMAIN tables \ {S_producers} :
             (tables'[t] # tables[t])
                 => \E p \in Handlers : procs[p].pc = "emit_insert" /\ procs[p].arg.uuid = t]_vars

\* an Emit to c1 has returned NoError and the table of c1 holds its row
C20_Witness ==
    /\ last.op = "emit"
    /\ last.arg.uuid = S_c1
    /\ Kind(last.result) = "NoError"
    /\ \E row \in DOMAIN tables[S_c1].rows : row[S_x] = Str(S_String)

\* the step is one of an Emit call: it arrives, goes on or returns
EmitStep ==
    \/ last'.op = "emit"
    \/ \E p \in Handlers :
          procs'[p] # procs[p] /\ (procs[p].op = "emit" \/ procs'[p].op = "emit")

\* C21: the step in which an Emit returns NoError adds exactly one row to the
\* table of its producer and changes nothing else; every other step of an Emit,
\* one returning an error included, changes no table; no step of another call
\* changes a data table. So the rows of a table count the Emits that returned
\* NoError, identical ones included.
C21_EmitsAppendOnly ==
    [][/\ EmitStep =>
             IF last'.op = "emit" /\ Kind(last'.result) = "NoError"
             THEN \E row \in DOMAIN tables'[last'.arg.uuid].rows :
                     tables' = [tables EXCEPT ![last'.arg.uuid].rows = @ (+) SetToBag({row})]
             ELSE tables' = tables
       /\ ~EmitStep =>
             \A t \in DOMAIN tables \ {S_producers} : tables'[t] = tables[t]]_vars

\* two identical Emits to c1 have returned NoError and the table holds their
\* row twice
C21_Witness ==
    /\ last.op = "emit"
    /\ last.arg.uuid = S_c1
    /\ Kind(last.result) = "NoError"
    /\ \E row \in DOMAIN tables[S_c1].rows : tables[S_c1].rows[row] = 2

\* the value is of the kind the claim lists for the declared type
KindListed(val, data_type) ==
    CASE data_type = "Int" -> val.k = "int" /\ ~MagnitudeAbove(val.v, I64_DIGITS, I64_LEAD8)
      [] data_type \in {"Float", "Double"} -> val.k \in {"int", "float"}
      [] data_type = "String" -> val.k = "str"
      [] data_type = "Bool" -> val.k = "bool"
      [] data_type = "Binary" -> val.k = "arr" /\ \A i \in 1..Len(val.v) : val.v[i] \in 0..255
      [] data_type = "Time" -> val.k = "str" /\ Len(val.v) = 19 /\ IsDigit(val.v[1])

\* C22: coercion succeeds only for a value of the kind listed for the declared
\* type (Int: an integer within the signed 64-bit range; Float, Double: a number;
\* String: a string; Bool: a boolean; Binary: a sequence of bytes; Time: a
\* date-time text); it fails for every other pair, such as the string "5" for
\* Int, a number for String and null for any type; and a failed coercion makes
\* the emit fail with InvalidData.
C22_NoCrossTypeCoercion ==
    fout.set =>
        /\ fout.val.coerced.ok => KindListed(fin.val.val, fin.val.data_type)
        /\ ~KindListed(fin.val.val, fin.val.data_type) => ~fout.val.coerced.ok
        /\ (fin.val.val = JStr(<<"5">>) /\ fin.val.data_type = "Int") => ~fout.val.coerced.ok
        /\ (fin.val.val.k \in {"int", "float"} /\ fin.val.data_type = "String")
              => ~fout.val.coerced.ok
        /\ fin.val.val = JNull => ~fout.val.coerced.ok
        /\ ~fout.val.coerced.ok =>
              (~fout.val.prep.ok /\ fout.val.prep.err.kind = "InvalidData")

\* the string "5" has been refused for an Int column and the emit has failed
\* with InvalidData
C22_Witness ==
    /\ fout.set
    /\ fin.val = [val |-> JStr(<<"5">>), data_type |-> "Int"]
    /\ ~fout.val.coerced.ok
    /\ fout.val.prep.err.kind = "InvalidData"

\* the DataType an add call stands for
AddedType(call) ==
    CASE call.fn = "add_column" -> call.col_type
      [] call.fn = "add_int" -> "Int"
      [] call.fn = "add_float" -> "Float"
      [] call.fn = "add_time" -> "Time"
      [] call.fn = "add_binary" -> "Binary"
      [] call.fn = "add_string" -> "String"
      [] call.fn = "add_bool" -> "Bool"
      [] call.fn = "add_double" -> "Double"

\* C23: the schema build() returns has as keys exactly the names added since
\* Builder::new() and maps each name to the DataType of the last add call made
\* for that name.
C23_BuilderLastAddWins ==
    fout.set =>
        /\ DOMAIN fout.val = {fin.val[i].name : i \in 1..Len(fin.val)}
        /\ \A i \in 1..Len(fin.val) :
              (\A j \in (i + 1)..Len(fin.val) : fin.val[j].name # fin.val[i].name)
                  => fout.val[fin.val[i].name] = AddedType(fin.val[i])

\* build() has returned after a name was added twice with different types and
\* another name once
C23_Witness ==
    /\ fout.set
    /\ Len(fin.val) = 3
    /\ fin.val[1].name = fin.val[3].name
    /\ fin.val[2].name # fin.val[1].name
    /\ fin.val[1].fn = "add_binary"
    /\ fin.val[2].fn = "add_bool"
    /\ fin.val[3].fn = "add_double"

\* C24: an Emit to a producer registered once, the store healthy, whose data
\* has a key that is no column of the registered schema returns
\* InvalidColumnNames.
C24_UnknownKeyInvalidColumnNames ==
    (/\ last.op = "emit"
     /\ ~last.storeDown
     /\ \E r \in insertedBy : r.uuid = last.arg.uuid
     /\ \A r \in insertedBy :
           r.uuid = last.arg.uuid =>
               DOMAIN last.arg.data \ DOMAIN r.registration.schema # {}
     /\ Cardinality({r \in insertedBy : r.uuid = last.arg.uuid}) = 1
     /\ BagCardinality(tables[S_producers].rows) = 1)
    => Kind(last.result) = "InvalidColumnNames"

\* C25: a Register reaches its catalog insert only from a create-table statement
\* that succeeded, so the data table named by its uuid exists when the insert is
\* attempted; and every catalog row written by a Register has a data table named
\* by its uuid, whatever statements the store failed.
C25_CatalogOnlyAfterCreate ==
    [][/\ \A p \in Handlers :
             /\ (procs'[p].pc = "reg_insert" /\ procs[p].pc # "reg_insert")
                   => (procs[p].pc = "reg_create" /\ procs'[p].uuid \in DOMAIN tables')
             /\ procs[p].pc = "reg_insert" => procs[p].uuid \in DOMAIN tables
             /\ (procs[p].pc = "reg_create" /\ procs'[p].pc = "idle")
                   => tables'[S_producers] = tables[S_producers]
       /\ \A r \in insertedBy' : r.uuid \in DOMAIN tables'
       /\ insertedBy' # insertedBy =>
             \E p \in Handlers :
                /\ procs[p].pc = "reg_insert"
                /\ insertedBy' \ insertedBy
                      = {[uuid |-> procs[p].uuid, registration |-> procs[p].arg]}
                /\ \E row \in DOMAIN tables'[S_producers].rows :
                      /\ tables'[S_producers].rows
                            = tables[S_producers].rows (+) SetToBag({row})
                      /\ row[S_uuid] = Str(procs[p].uuid)]_vars

\* a Register has written its catalog row, and a later Register has failed in
\* its create statement: it has neither a data table nor a catalog row
C25_Witness ==
    /\ insertedBy # {}
    /\ last.op = "register"
    /\ last.storeDown
    /\ Kind(last.result) = "InternalError"
    /\ last.uuid \notin DOMAIN tables
    /\ \A row \in DOMAIN tables[S_producers].rows : row[S_uuid] # Str(last.uuid)

IsPrefix(p, t) == Len(p) <= Len(t) /\ SubSeq(t, 1, Len(p)) = p

\* the identifier of a rendered error: the text before its first colon
Identifier(text) ==
    IF \E i \in 1..Len(text) : text[i] = ":"
    THEN SubSeq(text, 1, (CHOOSE i \in 1..Len(text) :
                             text[i] = ":" /\ \A j \in 1..(i - 1) : text[j] # ":") - 1)
    ELSE text

\* C26: the text Display writes for an error begins with the name of the error's
\* own kind, and no error of another kind renders with the same identifier.
C26_DisplayNamesOwnKind ==
    fout.set =>
        /\ IsPrefix(ErrorName(fin.val.kind), fout.val)
        /\ \A e \in DisplayErrors :
              e.kind # fin.val.kind => Identifier(fmt(e)) # Identifier(fout.val)

\* C27: the second catalog lookup of an Emit, made in persist_emit after the
\* first lookup succeeded and the data passed validation, succeeds whenever the
\* store answers, whatever Register calls run at the same time; so an Emit that
\* passed validation does not fail with a lookup error.
C27_SecondLookupSucceeds ==
    [][\A p \in Handlers :
          (/\ procs[p].pc = "emit_lookup2"
           /\ procs'[p] # procs[p]
           /\ looked'.qr.ok)
          => /\ looked'.found.ok
             /\ validate_emit_schema(procs[p].arg, looked'.found.val)
             /\ procs'[p].pc = "idle" =>
                   Kind(last'.result) \notin {"InternalError", "Unregistered", "InvalidUuid"}]_vars

\* C28: for every catalog row written by a Register, the data table named by the
\* row's uuid has exactly the columns ts and the keys of the row's stored schema,
\* ts a timestamp and each key of the type its schema declares; a second
\* registration of a custom id with another schema included.
C28_TableMatchesStoredSchema ==
    \A r \in insertedBy :
        /\ r.uuid \in DOMAIN tables
        /\ DOMAIN tables[r.uuid].cols = {S_ts} \cup DOMAIN r.registration.schema
        /\ tables[r.uuid].cols[S_ts] = "timestamp"
        /\ \A c \in DOMAIN r.registration.schema :
              tables[r.uuid].cols[c] = TypeLabel(r.registration.schema[c])

\* C28, for the second registration of a custom id alone: no Register has used
\* the name of the catalog table as its id
C28_ReRegisteredTableMatches ==
    (\A r \in insertedBy : r.uuid # S_producers) => C28_TableMatchesStoredSchema

\* the values a data record may hold for a column: the values of the coercion
\* menu and the names of the DataTypes
CandidateValues == CoerceValues \cup {JStr(VariantName(dt)) : dt \in DataTypes}

\* the data records over the columns of a schema, or over some of them
CandidateData(schema) ==
    UNION {[keys -> CandidateValues] : keys \in SUBSET DOMAIN schema}

\* an Emit of data to producer uuid, served in the current state by a healthy
\* store, passes both lookups, the validation and the coercion, and its insert
\* is accepted
EmitSucceeds(uuid, data) ==
    LET emit == Emit(uuid, None, data)
        found == get_producer_row(uuid, StoreOk(SelectProducer(tables, uuid)))
    IN  /\ found.ok
        /\ validate_emit_schema(emit, found.val)
        /\ \E order \in Orderings(DOMAIN data) :
              LET prep == persist_emit_prepare(emit, found.val.schema, order)
              IN  prep.ok /\ InsertAccepted(tables, prep.sql, prep.params)

\* C29: once a Register has returned NoError with an id registered for the
\* first time, there is a data record whose Emit to that id returns NoError, the
\* store being healthy, whatever the DataTypes of the registered columns.
C29_RegisteredCanEmit ==
    (/\ last.op = "register"
     /\ Kind(last.result) = "NoError"
     /\ ~last.wasRegistered
     /\ Cardinality({r \in insertedBy : r.uuid = last.uuid}) = 1)
    => \E data \in CandidateData(last.arg.schema) : EmitSucceeds(last.uuid, data)

\* C30: an Emit that differs from the one served only in its timestamp, absent
\* or of any value, gets the same result and the same insert statement and
\* parameters; and no insert statement built names the ts column.
C30_TimestampNoEffect ==
    fout.set =>
        /\ \A t \in TimestampValues :
              LET twin == [fin.val.emit EXCEPT !.timestamp = t]
                  row == ProducerRow(fin.val.schema, twin.uuid)
              IN  /\ emit_to_row(twin, row, fin.val.order) = fout.val.served
                  /\ persist_emit_prepare(twin, row[S_schema], fin.val.order) = fout.val.prep
        /\ fout.val.prep.ok =>
              \A i \in 1..Len(fout.val.prep.sql.columns) : fout.val.prep.sql.columns[i] # S_ts

\* an Emit carrying the timestamp 7 has been served with NoError and its insert
\* statement names the column x alone
C30_Witness ==
    /\ fout.set
    /\ fin.val.emit.timestamp = Some(7)
    /\ fout.val.served.error = NoError
    /\ fout.val.served.stmt.sql.columns = <<S_x>>

====
